---- MODULE Spec2Model ----
(***************************************************************************)
(* ParticleHeatMap (src/src/ParticleHeatMap.ts): one instance of the class *)
(* with the scene's primitive collection, the camera, and one particle of  *)
(* the host engine that the per-tick updater is called on.                 *)
(*                                                                         *)
(* Angles are whole multiples of one angle unit; HalfTurn units make pi.   *)
(* A thrown error is recorded in `thrown` (the outcome of the last call).  *)
(***************************************************************************)
EXTENDS Integers, Sequences, FiniteSets, TLC

VARIABLES
  rectangle,       \* this.rectangle
  data,            \* this.data: a sequence of rows, each a sequence of cells
  renderOptions,   \* this.renderOptions
  particleSystem,  \* this.particleSystem: Null or the identity of an emitter
  system,          \* the properties of the emitter this.particleSystem references
  primitives,      \* scene.primitives: identities of the emitters in the scene
  nextId,          \* identity the next `new ParticleSystem` gets
  camera,          \* scene.camera: its last flyTo
  called,          \* the public method called last ("new": the constructor)
  thrown,          \* error raised by the last call, or NoError
  particle,        \* the engine's particle handed to particleCallback
  sample           \* locals of the last particleCallback invocation

vars == <<rectangle, data, renderOptions, particleSystem, system, primitives,
          nextId, camera, called, thrown, particle, sample>>

----------------------------------------------------------------------------
(* Bounds of the model *)

\* angle units in a half turn (pi)
HalfTurn == 4
\* emitters one run may construct
MaxEmitters == 2
\* keys one update() argument may carry
MaxKeys == 2
\* frames the engine keeps one particle alive
MaxAge == 2

----------------------------------------------------------------------------
(* Values *)

Null == 0
NoError == "none"
NotInitialized == "have not initializated"
TypeError == "TypeError"

particleParticleSize == 12

Cyan == "rgba(0, 247, 255, 1)"
Yellow == "rgba(255, 255, 0, 1)"
Blue == "rgba(0, 0, 255, 1)"

Keys == {"emissionRate", "scale", "maximumSpeed", "height", "endScale",
         "startColor", "upColor", "downColor", "lifetime"}

defaultOptions ==
  [emissionRate |-> 1000, scale |-> 10, maximumSpeed |-> 1, height |-> 1000,
   endScale |-> 1, startColor |-> Cyan, upColor |-> Yellow,
   downColor |-> Blue, lifetime |-> 12]

\* Color.fromCssColorString on the colour strings in use: <<r, g, b, alpha>>
FromCssColorString(css) ==
  CASE css = Cyan -> <<0, 247, 255, 1>>
    [] css = Yellow -> <<255, 255, 0, 1>>
    [] css = Blue -> <<0, 0, 255, 1>>

WithAlpha(color, alpha) == <<color[1], color[2], color[3], alpha>>

Abs(n) == IF n < 0 THEN -n ELSE n

Max(a, b) == IF a > b THEN a ELSE b

\* Cells of the grid and the result of a lookup
Num(n) == [t |-> "num", v |-> n]
NaN == [t |-> "NaN"]
Undefined == [t |-> "undefined"]

isNaN(value) == value.t # "num"

----------------------------------------------------------------------------
(* Rectangle *)

\* rectangle.width: the angular span, through the antimeridian when east < west
Width(r) == IF r.east < r.west THEN r.east + 2 * HalfTurn - r.west ELSE r.east - r.west

\* rectangle.height
Height(r) == r.north - r.south

\* get center(): <<lon, lat>> in HALF angle units (west + width / 2 doubled)
center(r) ==
  LET lon2 == 2 * r.west + Width(r)
      lat2 == 2 * r.south + Height(r)
  IN <<IF lon2 > 2 * HalfTurn THEN lon2 - 4 * HalfTurn ELSE lon2, lat2>>

\* Cartesian3.fromRadians(lon, lat, height) with lon, lat in half angle units
FromRadians(lon2, lat2, height) == [lon2 |-> lon2, lat2 |-> lat2, height |-> height]

\* Transforms.eastNorthUpToFixedFrame(origin): the frame is determined by its origin
EastNorthUpToFixedFrame(origin) == [origin |-> origin]

\* CMath.toDegrees
ToDegrees(a) == (a * 180) \div HalfTurn

----------------------------------------------------------------------------
(* Inputs *)

\* Values an options object may give each key
OptionValues ==
  [emissionRate |-> {1000, 3000}, scale |-> {10, 1}, maximumSpeed |-> {1},
   height |-> {1000, 10000}, endScale |-> {1}, startColor |-> {Cyan, Yellow},
   upColor |-> {Yellow}, downColor |-> {Blue}, lifetime |-> {12}]

\* Options objects that give every key
FullOptions ==
  [emissionRate : OptionValues.emissionRate, scale : OptionValues.scale,
   maximumSpeed : OptionValues.maximumSpeed, height : OptionValues.height,
   endScale : OptionValues.endScale, startColor : OptionValues.startColor,
   upColor : OptionValues.upColor, downColor : OptionValues.downColor,
   lifetime : OptionValues.lifetime]

\* ParticleHeatMapRenderOptions: every key optional; at most MaxKeys keys given
PartialOptions ==
  {[k \in K |-> o[k]] :
     o \in FullOptions, K \in {K \in SUBSET Keys : Cardinality(K) <= MaxKeys}}

\* { ...a, ...b }
Merge(a, b) == [k \in Keys |-> IF k \in DOMAIN b THEN b[k] ELSE a[k]]

Rect(w, s, e, n) == [west |-> w, south |-> s, east |-> e, north |-> n]

----------------------------------------------------------------------------
(* Lifecycle: init, update, switchShow, clear, resetCamera *)

\* scene.camera.flyTo of resetCamera(duration)
FlyTo(duration) ==
  LET lonWidth == Width(rectangle)
      latWidth == Height(rectangle)
      height == ToDegrees(Max(lonWidth, latWidth)) * 80000 + renderOptions.height
      c == center(rectangle)
  IN [t |-> "flyTo",
      \* center[1] - latWidth * 1.5, in half angle units
      destination |-> FromRadians(c[1], c[2] - 3 * latWidth, height),
      heading |-> 0, pitch |-> -35, roll |-> 0,
      duration |-> duration]

\* new ParticleSystem({...}) of init(); lengths of the box emitter are left as
\* the pairs of corners whose distance they are
NewParticleSystem ==
  LET r == rectangle
      o == renderOptions
      c == center(rectangle)
  IN [image |-> "/smoke.png",
      minimumSpeed |-> 0,
      maximumSpeed |-> o.maximumSpeed,
      startScale |-> <<1, 2>>,
      endScale |-> o.endScale,
      emissionRate |-> o.emissionRate,
      emitter |-> <<<<r.west, r.north, r.east, r.north>>,
                    <<r.west, r.north, r.west, r.south>>, 1>>,
      imageSize |-> <<25, 25>>,
      modelMatrix |-> EastNorthUpToFixedFrame(FromRadians(c[1], c[2], o.height)),
      minimumParticleLife |-> 1,
      lifetime |-> o.lifetime,
      startColor |-> WithAlpha(FromCssColorString(o.startColor), 0),
      minimumImageSize |-> <<particleParticleSize, particleParticleSize>>,
      maximumImageSize |-> <<particleParticleSize * 2, particleParticleSize * 2>>,
      show |-> TRUE]

\* init(resetCamera): no check of this.particleSystem precedes the construction
init(reset) ==
  /\ called' = "init"
  /\ nextId <= MaxEmitters
  /\ camera' = IF reset THEN FlyTo(1) ELSE camera
  /\ particleSystem' = nextId
  /\ system' = [i \in {nextId} |-> NewParticleSystem]
  /\ primitives' = primitives \cup {nextId}
  /\ nextId' = nextId + 1
  /\ thrown' = NoError
  /\ UNCHANGED <<rectangle, data, renderOptions, particle, sample>>

\* The assignments of update() to the live emitter. `o` is renderOptions as
\* DESTRUCTURED AT LINE 176, before line 177 merges the argument into it.
\* renderOptions is Required<...>: each field is defined, each guard passes.
PushOptions(ps, o) ==
  LET c == center(rectangle)
  IN [ps EXCEPT
        !.emissionRate = o.emissionRate,
        !.startColor = WithAlpha(FromCssColorString(o.startColor), 0),
        !.maximumSpeed = o.maximumSpeed,
        !.endScale = o.endScale,
        !.lifetime = o.lifetime,
        !.modelMatrix = EastNorthUpToFixedFrame(FromRadians(c[1], c[2], o.height))]

\* update(options)
update(options) ==
  /\ called' = "update"
  /\ IF particleSystem # Null
       THEN /\ renderOptions' = Merge(renderOptions, options)
            /\ system' = [system EXCEPT
                            ![particleSystem] = PushOptions(@, renderOptions)]
       ELSE UNCHANGED <<renderOptions, system>>
  /\ thrown' = NoError
  /\ UNCHANGED <<rectangle, data, particleSystem, primitives, nextId, camera,
                 particle, sample>>

\* switchShow without its else branch: silent when there is no emitter
switchShowSilent(show) ==
  /\ called' = "switchShow"
  /\ IF particleSystem # Null
       THEN system' = [system EXCEPT ![particleSystem].show = show]
       ELSE UNCHANGED system
  /\ thrown' = NoError
  /\ UNCHANGED <<rectangle, data, renderOptions, particleSystem, primitives,
                 nextId, camera, particle, sample>>

\* switchShow(show)
switchShow(show) ==
  /\ called' = "switchShow"
  /\ IF particleSystem # Null
       THEN /\ system' = [system EXCEPT ![particleSystem].show = show]
            /\ thrown' = NoError
       ELSE /\ thrown' = NotInitialized
            /\ UNCHANGED system
  /\ UNCHANGED <<rectangle, data, renderOptions, particleSystem, primitives,
                 nextId, camera, particle, sample>>

\* clear(): primitives.remove(null) removes nothing and returns false
clear ==
  /\ called' = "clear"
  /\ primitives' = primitives \ {particleSystem}
  /\ particleSystem' = Null
  /\ system' = <<>>
  /\ thrown' = NoError
  /\ UNCHANGED <<rectangle, data, renderOptions, nextId, camera, particle, sample>>

\* resetCamera(duration = 1)
resetCamera ==
  /\ called' = "resetCamera"
  /\ camera' = FlyTo(1)
  /\ thrown' = NoError
  /\ UNCHANGED <<rectangle, data, renderOptions, particleSystem, system,
                 primitives, nextId, particle, sample>>

----------------------------------------------------------------------------
(* The per-particle updater *)

\* ellipsoid.cartesianToCartographic(particle.position): the particle's
\* position is kept as the longitude and latitude it projects to
Positions ==
  {[lon |-> lon, lat |-> lat] : lon \in -HalfTurn .. HalfTurn, lat \in -1 .. 1}

\* ~~(Math.abs(gap / span) * n): truncation of the non-negative quotient.
\* A zero span gives Infinity or NaN, which ~~ turns into 0. (The indices of
\* the model stay far below 2^31, where ~~ is plain truncation.)
GridIndex(gap, span, n) ==
  IF span = 0 THEN 0 ELSE (Abs(gap) * n) \div Abs(span)

\* longitude - west, plus a full turn when longitude < 0 and west > 0
LonGap(longitude, west) ==
  LET lonGap == longitude - west
  IN IF longitude < 0 /\ west > 0 THEN lonGap + 2 * HalfTurn ELSE lonGap

\* this.data[posY]?.[posX], indices from 0
Lookup(grid, posY, posX) ==
  IF posY + 1 \in DOMAIN grid
    THEN IF posX + 1 \in DOMAIN grid[posY + 1]
           THEN grid[posY + 1][posX + 1]
           ELSE Undefined
    ELSE Undefined

\* Neutralize that keeps the image
NeutralizeKeepsImage(p) ==
  [p EXCEPT !.startColor = WithAlpha(@, 0),
            !.endColor = WithAlpha(@, 0)]

\* lines 128-130: the particle made invisible
Neutralize(p) ==
  [p EXCEPT !.startColor = WithAlpha(@, 0),
            !.endColor = WithAlpha(@, 0),
            !.image = "null"]

\* lines 134-152: velocity is the component along the normalized position,
\* to which value * 10 * scale is added; the end colour is replaced
Perturb(p, value) ==
  [p EXCEPT !.velocity = @ + value * 10 * renderOptions.scale,
            !.endColor = IF value > 0
                           THEN FromCssColorString(renderOptions.upColor)
                           ELSE FromCssColorString(renderOptions.downColor)]

Returned(p, s) == [particle |-> p, thrown |-> NoError, sample |-> s]

Threw(p, e) == [particle |-> p, thrown |-> e, sample |-> [t |-> "threw"]]

\* lines 108-153: particleCallback past its guard
SampleGrid(p) ==
  IF Len(data) = 0
    THEN \* this.data[0].length: data[0] is undefined
         Threw(p, TypeError)
  ELSE
    LET longitude == p.position.lon
        latitude == p.position.lat
        width == Len(data[1])
        height == Len(data)
        lonGap == LonGap(longitude, rectangle.west)
        posX == GridIndex(lonGap, Width(rectangle), width)
        posY == GridIndex(rectangle.north - latitude, Height(rectangle), height)
        value == Lookup(data, posY, posX)
        s == [t |-> "sampled", lonGap |-> lonGap, posX |-> posX, posY |-> posY,
              value |-> value]
    IN IF isNaN(value)
         THEN Returned(Neutralize(p), s)
         ELSE Returned(Perturb(p, value.v), s)

\* particleCallback without the guard of lines 105-107
particleCallbackUnguarded(p) == SampleGrid(p)

\* particleCallback(particle, dt)
particleCallback(p) ==
  IF particleSystem = Null
    THEN Returned(p, [t |-> "skipped"])
    ELSE SampleGrid(p)

\* A particle as the engine emits it: its start colour is the emitter's
\* (alpha 0 since init), its end colour the engine's default; the first frame
\* gives it its position before the updater sees it
NewParticle ==
  [position |-> [lon |-> 0, lat |-> 0], velocity |-> 0, age |-> 0,
   startColor |-> WithAlpha(FromCssColorString(renderOptions.startColor), 0),
   endColor |-> <<255, 255, 255, 1>>,
   image |-> "/smoke.png"]

\* The engine emits a particle into an emitter of the scene
Emit ==
  /\ primitives # {}
  /\ particle' = NewParticle
  /\ sample' = [t |-> "none"]
  /\ UNCHANGED <<rectangle, data, renderOptions, particleSystem, system,
                 primitives, nextId, camera, called, thrown>>

\* One frame of an emitter in the scene for the particle: the engine moves
\* it to pos and calls the update callback bound to this instance
Frame(pos) ==
  /\ primitives # {}
  /\ particle.age < MaxAge
  /\ LET r == particleCallback([particle EXCEPT !.position = pos, !.age = @ + 1])
     IN /\ particle' = r.particle
        /\ thrown' = r.thrown
        /\ sample' = r.sample
  /\ UNCHANGED <<rectangle, data, renderOptions, particleSystem, system,
                 primitives, nextId, camera, called>>

----------------------------------------------------------------------------
(* Specifications *)

HomeCamera == [t |-> "home"]

\* Longitudes of the rectangles' edges: near the antimeridian and near Greenwich
EdgeLongitudes == {1 - HalfTurn, -1, 1, HalfTurn - 1}

\* Rectangles given to the constructor: west, south, east, north
Rectangles ==
  {Rect(w, -1, e, 1) : w \in EdgeLongitudes, e \in EdgeLongitudes}
  \cup {Rect(1, 0, 1, 0)}

\* Grids given to the constructor
Grids ==
  {<<>>,
   << <<>> >>,
   << <<Num(1), NaN>>, <<Num(-1), Num(0)>> >>}

\* new ParticleHeatMap(viewer, { rectangle, data, renderOptions })
Constructed(r, d, o) ==
  /\ rectangle = r
  /\ data = d
  /\ renderOptions = Merge(defaultOptions, o)
  /\ particleSystem = Null
  /\ system = <<>>
  /\ primitives = {}
  /\ nextId = 1
  /\ camera = HomeCamera
  /\ called = "new"
  /\ thrown = NoError
  /\ particle = NewParticle
  /\ sample = [t |-> "none"]

\* An instance as index.ts constructs it (emissionRate 3000 and height 10000
\* over the defaults), on a rectangle east of Greenwich or on one crossing the
\* antimeridian whose center lies beyond it
Init ==
  \E r \in {Rect(1, -1, 3, 1), Rect(HalfTurn - 1, -1, 2 - HalfTurn, 1)} :
    Constructed(r, << <<Num(1), NaN>>, <<Num(-1), Num(0)>> >>,
                [emissionRate |-> 3000, height |-> 10000])

Next ==
  \/ \E reset \in BOOLEAN : init(reset)
  \/ \E options \in PartialOptions : update(options)
  \/ \E show \in BOOLEAN : switchShow(show)
  \/ clear
  \/ resetCamera

Spec == Init /\ [][Next]_vars

\* Any rectangle and grid, and the updater running on the particle
InitTick ==
  \E r \in Rectangles, d \in Grids, scale \in OptionValues.scale :
    Constructed(r, d, [scale |-> scale])

NextTick ==
  \/ init(FALSE)
  \/ clear
  \/ Emit
  \/ \E pos \in Positions : Frame(pos)

SpecTick == InitTick /\ [][NextTick]_vars

----------------------------------------------------------------------------
(* Properties *)

\* The property of the live emitter that update() writes for key k
LiveValue(ps, k) ==
  CASE k = "emissionRate" -> ps.emissionRate
    [] k = "startColor" -> ps.startColor
    [] k = "maximumSpeed" -> ps.maximumSpeed
    [] k = "endScale" -> ps.endScale
    [] k = "lifetime" -> ps.lifetime
    [] k = "height" -> ps.modelMatrix
    [] OTHER -> <<>>

\* What that property is when the option k has value v
ValueFor(k, v) ==
  CASE k = "startColor" -> WithAlpha(FromCssColorString(v), 0)
    [] k = "height" ->
         EastNorthUpToFixedFrame(
           FromRadians(center(rectangle)[1], center(rectangle)[2], v))
    [] OTHER -> v

PushedKeys ==
  {"emissionRate", "startColor", "maximumSpeed", "endScale", "lifetime", "height"}

\* C1: init() on an instance that holds an emitter throws, adds no emitter to
\* the scene and keeps the stored emitter reference.
C1_InitTwiceFailsFast ==
  [][\A reset \in BOOLEAN :
       (particleSystem # Null /\ init(reset)) =>
         /\ thrown' # NoError
         /\ particleSystem' = particleSystem
         /\ primitives' = primitives]_vars

\* C2: after update(p) on an initialized instance the live emitter carries,
\* for each pushed key present in p, the value taken from p (for height: the
\* transform at the rectangle center and the new height).
C2_UpdatePushesNewValues ==
  [][\A p \in PartialOptions :
       (particleSystem # Null /\ update(p)) =>
         \A k \in DOMAIN p \cap PushedKeys :
           LiveValue(system'[particleSystem], k) = ValueFor(k, p[k])]_vars

\* C3: update(p) leaves every key absent from p unchanged on the stored
\* options and on the live emitter; update({}) changes no emitter property.
C3_UpdateLeavesAbsentKeys ==
  [][\A p \in PartialOptions :
       update(p) =>
         \A k \in Keys \ DOMAIN p :
           /\ renderOptions'[k] = renderOptions[k]
           /\ particleSystem # Null =>
                LiveValue(system'[particleSystem], k)
                  = LiveValue(system[particleSystem], k)]_vars

\* C4: the scene holds at most one emitter of the instance, and if it holds
\* one it is the emitter particleSystem references.
C4_AtMostOneEmitter ==
  /\ Cardinality(primitives) <= 1
  /\ primitives # {} => primitives = {particleSystem}

\* C5: the per-particle updater raises no error, whatever the grid, the
\* rectangle and the particle's position.
C5_UpdaterNeverThrows == thrown # TypeError

\* C6: when the lookup gives no number (an index outside the grid, or a NaN
\* cell) the updater zeroes the start and end alpha, clears the image and
\* leaves the velocity and the end colour's red, green and blue alone.
C6_NoDataNeutralizes ==
  [][(sample'.t = "sampled" /\ isNaN(sample'.value) /\ Frame(particle'.position)) =>
       /\ particle'.startColor[4] = 0
       /\ particle'.endColor[4] = 0
       /\ particle'.image = "null"
       /\ particle'.velocity = particle.velocity
       /\ \A i \in 1 .. 3 : particle'.endColor[i] = particle.endColor[i]]_vars

\* A particle perturbed in one frame and neutralized in the next
C6_Witness ==
  /\ sample.t = "sampled"
  /\ isNaN(sample.value)
  /\ particle.image = "null"
  /\ particle.velocity # 0

\* C7: switchShow(v) without an emitter throws the initialization error and
\* changes nothing else; with an emitter it sets show to v and throws nothing.
C7_SwitchShow ==
  [][\A show \in BOOLEAN :
       switchShow(show) =>
         IF particleSystem = Null
           THEN /\ thrown' = NotInitialized
                /\ UNCHANGED <<rectangle, data, renderOptions, particleSystem,
                               system, primitives, nextId, camera, particle,
                               sample>>
           ELSE /\ thrown' = NoError
                /\ system'[particleSystem].show = show]_vars

\* switchShow has thrown on an instance that was cleared
C7_Witness ==
  /\ called = "switchShow"
  /\ thrown = NotInitialized
  /\ particleSystem = Null
  /\ nextId > 1

\* C8: clear() after clear() throws nothing, changes nothing, and leaves the
\* instance as it was before the first init(): no emitter reference and no
\* emitter of the instance in the scene. (A clear() that follows a clear()
\* changes no variable, so the states after clear(); clear() are the states
\* after clear().)
C8_ClearTwice ==
  called = "clear" =>
    /\ thrown = NoError
    /\ particleSystem = Null
    /\ system = <<>>
    /\ primitives = {}

\* C9: for a rectangle crossing the antimeridian (east < west) and a particle
\* whose longitude is inside it, the corrected lonGap lies in [0, width].
C9_LonGapInRange ==
  (/\ sample.t = "sampled"
   /\ rectangle.east < rectangle.west
   /\ \/ particle.position.lon >= rectangle.west
      \/ particle.position.lon <= rectangle.east)
  => sample.lonGap \in 0 .. Width(rectangle)

\* C10: while the instance holds no emitter, an updater invocation changes
\* neither the particle's velocity, nor its colours, nor its image.
C10_NoMutationAfterClear ==
  [][(particleSystem = Null /\ Frame(particle'.position)) =>
       /\ particle'.velocity = particle.velocity
       /\ particle'.startColor = particle.startColor
       /\ particle'.endColor = particle.endColor
       /\ particle'.image = particle.image]_vars

\* The updater ran for an emitter left in the scene after clear()
C10_Witness ==
  /\ sample.t = "skipped"
  /\ particleSystem = Null
  /\ primitives # {}
  /\ particle.age > 0

====
